---- MODULE Spec2Model ----
(***************************************************************************)
(* A state-machine model of the bdkgo wallet wrapper                       *)
(* (src/bdkwallet/bdkgo_crate/src/lib.rs).  The wrapper keeps a            *)
(* bdk_wallet::PersistedWallet behind the `inner` mutex, a rusqlite        *)
(* connection behind the `conn` mutex and the wallet header behind the     *)
(* `header` mutex.  Every public method of `Wallet` is one action.  The    *)
(* behaviour of the bdk_wallet / bdk_chain calls the wrapper makes is      *)
(* modelled by the operators of the first sections.                        *)
(***************************************************************************)
EXTENDS Integers, Sequences, FiniteSets, TLC

(***************************************************************************)
(* Bounds of the model.                                                    *)
(***************************************************************************)
\* Heights are u32 in the code; the model keeps the width but scales it:
\* MaxU32 stands for u32::MAX, arithmetic on heights wraps modulo MaxU32 + 1.
MaxU32 == 3
\* Highest derivation index the model reveals (below the lookahead window).
MaxIdx == 1
\* Largest first-seen timestamp a mempool entry carries.
MaxTime == 2
\* Number of calls made on the wallet in one run.
MaxCalls == 3
\* The largest byte value of a header blob.
MaxByte == 4

Heights == 0..MaxU32
U32Mod == MaxU32 + 1

(***************************************************************************)
(* The inputs: a fixed universe of blocks and transactions.                *)
(***************************************************************************)
NoBlock == "none"
Keep == "keep"
GenesisHash == "g"

\* Decodable blocks, named by their block hash.
Blocks == {"a", "b", "c"}
\* Bytes that are no consensus-serialized block.
BadBlock == "badblock"

\* header.prev_blockhash of each block: a <- g, b <- a, c <- a (a fork of b).
\* The genesis block's own prev_blockhash is the all-zero hash.
PrevHash(b) == CASE b = "a" -> GenesisHash
                 [] b = "b" -> "a"
                 [] b = "c" -> "a"
                 [] b = GenesisHash -> "zero"

Hashes == Blocks \cup {GenesisHash}

\* Transactions, named by txid; BadTx is bytes that decode to no transaction.
Txs == {"t1", "t2", "t3"}
BadTx == "badtx"

\* The transactions of each block.
BlockTxs(b) == CASE b = "a" -> {"t1"}
                 [] b = "b" -> {"t3"}
                 [] b = "c" -> {"t2", "t3"}

\* External derivation index an output of the transaction pays to (-1: none).
\* t1 pays index 0, t2 pays index 1, t3 pays a foreign script.
PaysIdx(t) == CASE t = "t1" -> 0
                [] t = "t2" -> 1
                [] t = "t3" -> -1

\* The transactions whose output the transaction spends: t3 spends t1's output.
SpendsTx(t) == IF t = "t3" THEN {"t1"} ELSE {}

\* Value in satoshi of the wallet-owned output of a transaction.
OutValue(t) == IF t \in {"t1", "t2"} THEN 3 ELSE 0

(***************************************************************************)
(* bdk_chain::local_chain: the checkpoint chain, a map height -> hash.     *)
(***************************************************************************)
EmptyChain == [h \in Heights |-> NoBlock]
GenesisChain == [EmptyChain EXCEPT ![0] = GenesisHash]

ChainHeights(c) == {h \in Heights : c[h] # NoBlock}

RECURSIVE SetMax(_)
SetMax(S) == IF S = {} THEN -1
             ELSE LET x == CHOOSE y \in S : TRUE
                      m == SetMax(S \ {x})
                  IN IF x > m THEN x ELSE m

TipHeight(c) == SetMax(ChainHeights(c))

NoChange == [h \in Heights |-> Keep]

\* A changeset of blocks applied to a chain (Some(hash) sets, None removes).
ApplyBlocks(c, cs) ==
    [h \in Heights |-> IF cs[h] = Keep THEN c[h] ELSE cs[h]]

\* merge_chains walks both chains from the tip down, the higher block first.
MergeInit ==
    [cs |-> NoChange, prevOrig |-> -1, prevUpd |-> FALSE, poa |-> FALSE,
     inv |-> FALSE, pot |-> {}, err |-> FALSE, stop |-> FALSE]

MergeAt(o, u, k, st) ==
    IF st.err \/ st.stop THEN st
    ELSE IF u[k] # NoBlock /\ o[k] = NoBlock THEN
        \* update block that does not exist in the original chain
        [st EXCEPT !.cs[k] = u[k], !.prevUpd = TRUE]
    ELSE IF o[k] # NoBlock /\ u[k] = NoBlock THEN
        \* original block that is not in the update
        [st EXCEPT !.pot = @ \cup {k}, !.inv = FALSE, !.prevOrig = k,
                   !.stop = (\A j \in Heights : j < k => u[j] = NoBlock)]
    ELSE IF o[k] # NoBlock /\ u[k] # NoBlock THEN
        IF o[k] = u[k] THEN
            \* point of agreement
            IF ~st.inv /\ ~st.poa /\ st.prevOrig # -1 /\ st.prevUpd
            THEN [st EXCEPT !.err = TRUE]
            ELSE [st EXCEPT !.poa = TRUE, !.inv = FALSE,
                            !.prevUpd = TRUE, !.prevOrig = k]
        ELSE
            \* invalidation: the update's hash, and every block above goes
            [st EXCEPT !.cs = [h \in Heights |->
                                 IF h = k THEN u[k]
                                 ELSE IF h \in st.pot THEN NoBlock
                                 ELSE st.cs[h]],
                       !.pot = {}, !.inv = TRUE,
                       !.prevUpd = TRUE, !.prevOrig = k]
    ELSE st

RECURSIVE MergeFrom(_, _, _, _)
MergeFrom(o, u, k, st) ==
    IF k < 0 THEN st
    ELSE MergeFrom(o, u, k - 1, MergeAt(o, u, k, st))

\* merge_chains(original, update): ok with the changeset, or CannotConnect.
MergeChains(o, u) ==
    LET st == MergeFrom(o, u, MaxU32, MergeInit)
        bad == st.err \/ (~st.inv /\ ~st.poa /\ st.prevOrig # -1)
        new == ApplyBlocks(o, st.cs)
    IN IF bad \/ new[0] = NoBlock
       THEN [ok |-> FALSE, err |-> "CannotConnect", cs |-> NoChange, chain |-> o]
       ELSE [ok |-> TRUE, err |-> "", cs |-> st.cs, chain |-> new]

\* LocalChain::apply_header_connected_to(header, height, connected_to),
\* connected_to given as its height ch and hash cx.
ApplyHeaderConnectedTo(c, b, h, ch, cx) ==
    LET connIsThis == ch = h /\ cx = b
        connIsPrev == h >= 1 /\ ch = h - 1 /\ cx = PrevHash(b)
        floorH == IF h = 0 THEN 0 ELSE h - 1
        useConn == ~connIsThis /\ ~connIsPrev
        upd == [k \in Heights |->
                  IF k = h THEN b
                  ELSE IF h >= 1 /\ k = h - 1 THEN PrevHash(b)
                  ELSE IF useConn /\ k = ch THEN cx
                  ELSE NoBlock]
    IN IF useConn /\ ch >= floorH
       THEN [ok |-> FALSE, err |-> "InconsistentBlocks", cs |-> NoChange, chain |-> c]
       ELSE MergeChains(c, upd)

\* LocalChain::apply_header(header, height): connected to the header's parent.
ApplyHeader(c, b, h) ==
    IF h = 0 THEN ApplyHeaderConnectedTo(c, b, h, h, b)
    ELSE ApplyHeaderConnectedTo(c, b, h, h - 1, PrevHash(b))

(***************************************************************************)
(* bdk_wallet::Wallet: chain + transaction graph + keychain index, the     *)
(* staged ChangeSet, and the changesets the sqlite store holds.            *)
(***************************************************************************)
NoSeen == [t \in Txs |-> 0]

\* A freshly created wallet: the genesis checkpoint, nothing revealed.
NewWallet ==
    [chain |-> GenesisChain, txs |-> {}, anchors |-> {}, seen |-> NoSeen,
     ext |-> -1, int |-> -1, intUsed |-> {}]

\* bdk_wallet::ChangeSet; ext / int are last_revealed per keychain (-1: absent).
EmptyChangeSet ==
    [blocks |-> NoChange, txs |-> {}, anchors |-> {}, seen |-> NoSeen,
     ext |-> -1, int |-> -1]

Max(a, b) == IF a > b THEN a ELSE b

\* Merge::merge of two changesets, the later one second.
MergeCS(x, y) ==
    [blocks |-> [h \in Heights |-> IF y.blocks[h] = Keep THEN x.blocks[h] ELSE y.blocks[h]],
     txs |-> x.txs \cup y.txs,
     anchors |-> x.anchors \cup y.anchors,
     seen |-> [t \in Txs |-> Max(x.seen[t], y.seen[t])],
     ext |-> Max(x.ext, y.ext),
     int |-> Max(x.int, y.int)]

\* What the store holds after the initial create_wallet write.
NewStore ==
    [chain |-> GenesisChain, txs |-> {}, anchors |-> {}, seen |-> NoSeen,
     ext |-> -1, int |-> -1]

\* The sqlite persister writing one changeset, in one database transaction.
StoreWrite(d, cs) ==
    [chain |-> ApplyBlocks(d.chain, cs.blocks),
     txs |-> d.txs \cup cs.txs,
     anchors |-> d.anchors \cup cs.anchors,
     seen |-> [t \in Txs |-> Max(d.seen[t], cs.seen[t])],
     ext |-> Max(d.ext, cs.ext),
     int |-> Max(d.int, cs.int)]

\* Wallet::load_wallet: the in-memory wallet rebuilt from the store.
LoadWallet(d) ==
    [chain |-> d.chain, txs |-> d.txs, anchors |-> d.anchors, seen |-> d.seen,
     ext |-> d.ext, int |-> d.int, intUsed |-> {}]

\* An in-memory wallet with a changeset applied to it.
ApplyCS(w, cs) ==
    [w EXCEPT !.chain = ApplyBlocks(w.chain, cs.blocks),
              !.txs = @ \cup cs.txs,
              !.anchors = @ \cup cs.anchors,
              !.seen = [t \in Txs |-> Max(w.seen[t], cs.seen[t])],
              !.ext = Max(@, cs.ext),
              !.int = Max(@, cs.int)]

\* KeychainTxOutIndex: the transactions with an output to an indexed script
\* (every model index lies inside the lookahead window).
Indexed(S) == {t \in S : PaysIdx(t) >= 0}

\* is_tx_relevant, after the batch's transactions were indexed.  A block's
\* transactions are indexed in block order, parents first.
Relevant(w, batch) ==
    {t \in batch : PaysIdx(t) >= 0 \/ SpendsTx(t) \cap Indexed(w.txs \cup batch) # {}}

\* Indexing a transaction reveals up to the index it pays to.
RevealedBy(w, batch) ==
    LET m == SetMax({PaysIdx(t) : t \in batch})
    IN IF m > w.ext THEN m ELSE -1

\* IndexedTxGraph::apply_block_relevant(block, height)
BlockRelevantCS(w, b, h) ==
    LET rel == Relevant(w, BlockTxs(b))
    IN [EmptyChangeSet EXCEPT
          !.txs = rel \ w.txs,
          !.anchors = {<<t, h, b>> : t \in rel} \ w.anchors,
          !.ext = RevealedBy(w, BlockTxs(b))]

\* IndexedTxGraph::batch_insert_relevant_unconfirmed: list is a sequence of
\* <<txid, first seen>>; insert_seen_at only moves last_seen forward.
MempoolCS(w, list) ==
    LET batch == {list[i][1] : i \in 1..Len(list)}
        rel == Relevant(w, batch)
        at(t) == SetMax({list[i][2] : i \in {j \in 1..Len(list) : list[j][1] = t}})
    IN [EmptyChangeSet EXCEPT
          !.txs = rel \ w.txs,
          !.seen = [t \in Txs |-> IF t \in rel /\ at(t) > w.seen[t] THEN at(t) ELSE 0],
          !.ext = RevealedBy(w, batch)]

\* ChainPosition of a transaction of the graph under the wallet's chain.
AnchorsInChain(w, t) == {a \in w.anchors : a[1] = t /\ w.chain[a[2]] = a[3]}
IsConfirmed(w, t) == t \in w.txs /\ AnchorsInChain(w, t) # {}
IsUnconfirmed(w, t) == t \in w.txs /\ ~IsConfirmed(w, t) /\ w.seen[t] > 0
IsCanonical(w, t) == IsConfirmed(w, t) \/ IsUnconfirmed(w, t)

\* confirmation_height_upper_bound of a confirmed transaction.
ConfHeight(w, t) ==
    CHOOSE h \in Heights :
        /\ \E a \in AnchorsInChain(w, t) : a[2] = h
        /\ \A a \in AnchorsInChain(w, t) : a[2] >= h

\* Wallet::list_unspent: outputs of canonical transactions paying the wallet
\* that no canonical transaction spends, named by the paying transaction.
Unspent(w) ==
    {t \in Indexed(w.txs) :
        /\ IsCanonical(w, t)
        /\ ~\E s \in w.txs : IsCanonical(w, s) /\ t \in SpendsTx(s)}

\* External indices with an indexed output paying to them.
ExtUsed(w) == {PaysIdx(t) : t \in Indexed(w.txs)}

\* KeychainTxOutIndex::next_unused_spk: the lowest revealed unused index,
\* else the next index is revealed.
RevealedUnusedExt(w) == {i \in 0..w.ext : i \notin ExtUsed(w)}
SetMin(S) == CHOOSE x \in S : \A y \in S : x <= y
NextUnusedExt(w) ==
    IF RevealedUnusedExt(w) # {} THEN SetMin(RevealedUnusedExt(w)) ELSE w.ext + 1

(***************************************************************************)
(* WalletHeader and the file at db_path.  A byte is a value of 0..MaxByte; *)
(* the magic tag, the entropy and each u32 (the length prefix, the enum    *)
(* index of the network) are one byte long here.                           *)
(***************************************************************************)
Bytes == 0..MaxByte
DB_MAGIC == <<1>>
Networks == {"bitcoin", "regtest"}
BadNetwork == "nonet"
NetIndex(n) == IF n = "bitcoin" THEN 0 ELSE 1
NetOfIndex(b) == IF b = 0 THEN "bitcoin" ELSE "regtest"

\* The genesis hash of a network, and what a caller can pass to load.
MainGenesis == "gmain"
NetGenesis(n) == IF n = "regtest" THEN GenesisHash ELSE MainGenesis
Malformed == "malformed"

Headers ==
    [version : {<<v>> : v \in Bytes}, entropy : {<<e>> : e \in Bytes},
     network : Networks]

\* bincode, fixint: the arrays byte by byte, the enum as its index.
Serialize(h) == h.version \o h.entropy \o <<NetIndex(h.network)>>
BodyLen == Len(DB_MAGIC) + 2

\* What encode(&mut self) leaves in self: the magic tag copied over version.
Stamped(h) == [h EXCEPT !.version = DB_MAGIC]

\* An encoder that does not write the network.
encode_without_network(h) ==
    LET b == Stamped(h).version \o h.entropy \o <<0>> IN <<Len(b)>> \o b

\* WalletHeader::encode: the length of the record, then the record.
encode(h) == LET b == Serialize(Stamped(h)) IN <<Len(b)>> \o b

\* An absent header (no row, nothing decoded); a present one is <<h>>.
NoHeader == <<>>

\* WalletHeader::decode of the bytes r.
decode(r) ==
    IF Len(r) < 1 THEN [res |-> "ReadHeader", val |-> NoHeader]
    ELSE IF Len(r) - 1 < r[1] THEN [res |-> "ReadHeader", val |-> NoHeader]
    ELSE LET b == SubSeq(r, 2, 1 + r[1])
         IN IF Len(b) # BodyLen \/ b[BodyLen] >= Cardinality(Networks)
            THEN [res |-> "ParseHeader", val |-> NoHeader]
            ELSE LET h == [version |-> SubSeq(b, 1, Len(DB_MAGIC)),
                           entropy |-> SubSeq(b, Len(DB_MAGIC) + 1, BodyLen - 1),
                           network |-> NetOfIndex(b[BodyLen])]
                 IN IF h.version # DB_MAGIC
                    THEN [res |-> "HeaderVersion", val |-> NoHeader]
                    ELSE [res |-> "Ok", val |-> <<h>>]

\* WalletHeader::descriptor: fixed by the network and the entropy.
Descriptor(h) == <<h.network, h.entropy>>

\* The address of a descriptor at an index.
AddressOf(h, i) == <<Descriptor(h), i>>

\* The header blobs a damaged or foreign store can hold in place of r: r cut
\* short, r with one byte changed, r with a byte after it, and r with a
\* longer record (one more byte, counted by the length prefix).
Blobs(r) ==
    {SubSeq(r, 1, k) : k \in 0..Len(r)}
    \cup {[r EXCEPT ![k] = b] : k \in 1..Len(r), b \in Bytes}
    \cup {r \o <<b>> : b \in Bytes}
    \cup {<<r[1] + 1>> \o Tail(r) \o <<b>> : b \in {x \in Bytes : r[1] + 1 <= MaxByte}}

\* No wallet tables in the store, no wallet opened; a present one is <<w>>.
NoWallet == <<>>

\* Rows the header table is let grow to.
MaxRows == 2

\* No file at db_path, no wallet opened. `blob` is the first row of the
\* header table, the one SELECT ... LIMIT 1 reads, `rows` the number of its
\* rows.
EmptyEnv ==
    [file |-> FALSE, blob |-> NoHeader, rows |-> 0, wallet |-> NoWallet,
     active |-> NoWallet, how |-> "none", made |-> NoHeader, untouched |-> TRUE]

\* INSERT INTO header (data) VALUES (?1): one more row, behind the rows the
\* table has.
InsertHeader(e, bytes) ==
    [e EXCEPT !.blob = IF @ = NoHeader THEN <<bytes>> ELSE @, !.rows = @ + 1]

\* The store and the wallet after create_new succeeded with header h: the
\* header row (SELECT ... LIMIT 1 keeps reading an older first row), the
\* wallet's descriptor and genesis hash.
CreatedEnv(e, h) ==
    [file |-> TRUE,
     blob |-> InsertHeader(e, encode(h)).blob,
     rows |-> InsertHeader(e, encode(h)).rows,
     wallet |-> <<[desc |-> Descriptor(h), genesis |-> NetGenesis(h.network)]>>,
     active |-> <<Stamped(h)>>, how |-> "create_new", made |-> <<Stamped(h)>>,
     untouched |-> e.untouched]

\* The wallet of Init: created on regtest.
NewEnv == CreatedEnv(EmptyEnv, [version |-> DB_MAGIC, entropy |-> <<0>>, network |-> "regtest"])

VARIABLES
    mem,        \* the PersistedWallet behind the `inner` mutex
    staged,     \* its staged ChangeSet, not yet written
    durable,    \* what the sqlite store behind `conn` holds
    poisoned,   \* a caller panicked while holding the `inner` mutex
    ret,        \* the last call and what it returned
    nOk,        \* apply_block calls that returned Ok since creation
    history,    \* the apply_block calls so far: "sequential" when each returned
                \* Ok at height tip + 1, "ok" when each returned Ok, "loaded"
                \* after a crash and a load, else "mixed"
    created,    \* outpoints spent by transactions create_tx returned earlier
    nCalls,     \* calls made so far
    handed,     \* the indices fresh_address returned, in order
    conc,       \* caller threads: where each is in its call, who holds the locks
    inserted,   \* the wallet's transactions in the order they were inserted
    env         \* the file at db_path and the wallet opened from it

vars == <<mem, staged, durable, poisoned, ret, nOk, history, created, nCalls,
          handed, conc, inserted, env>>

\* Caller threads of the concurrent specification.
Threads == {1, 2}

\* No thread is inside a call; 0 names no holder of a mutex.
Idle ==
    [pc |-> [t \in Threads |-> "idle"], call |-> [t \in Threads |-> <<>>],
     inner |-> 0, conn |-> 0, header |-> 0]

Init ==
    /\ mem = NewWallet
    /\ staged = EmptyChangeSet
    /\ durable = NewStore
    /\ poisoned = FALSE
    /\ ret = [op |-> "create_new", res |-> "Ok", val |-> {}]
    /\ nOk = 0
    /\ history = "sequential"
    /\ created = {}
    /\ nCalls = 0
    /\ handed = <<>>
    /\ conc = Idle
    /\ inserted = <<>>
    /\ env = NewEnv

Ret(op, res, val) == [op |-> op, res |-> res, val |-> val]

\* The order in which one call inserts transactions: block order, and list
\* order for a mempool list (the inputs keep a parent before its child).
TxSeq == <<"t1", "t2", "t3">>
InSeq(q, t) == \E i \in DOMAIN q : q[i] = t
Extend(q, S) == q \o SelectSeq(TxSeq, LAMBDA t : t \in S /\ ~InSeq(q, t))

\* self.inner.lock().unwrap() on a poisoned mutex: the call panics.
PoisonedCall(op) ==
    /\ poisoned
    /\ nCalls < MaxCalls
    /\ nCalls' = nCalls + 1
    /\ UNCHANGED <<conc, env>>
    /\ ret' = Ret(op, "panic", {})
    /\ UNCHANGED <<mem, staged, durable, poisoned, nOk, history, created, handed>>
    /\ UNCHANGED inserted

\* The map_err closures of apply_block: InconsistentBlocks is declared
\* unreachable!() and panics, CannotConnect is returned to the caller.
ConnectErrDropped(err) == IF err = "InconsistentBlocks" THEN "panic" ELSE "Ok"

ConnectErr(err) == IF err = "InconsistentBlocks" THEN "panic" ELSE err

\* The in-memory part of Wallet::apply_block: decode, connect, index.
\* Yields the result tag and the changeset.
ConnectBlock(w, h, b) ==
    IF b = BadBlock THEN [res |-> "DecodeBlock", cs |-> EmptyChangeSet]
    ELSE LET tip == TipHeight(w.chain)
             r == IF tip = 0
                  THEN ApplyHeaderConnectedTo(w.chain, b, h, tip, w.chain[tip])
                  ELSE ApplyHeader(w.chain, b, h)
             blocks == [EmptyChangeSet EXCEPT !.blocks = r.cs]
         IN IF ~r.ok
            THEN [res |-> ConnectErr(r.err), cs |-> EmptyChangeSet]
            ELSE [res |-> "Ok",
                  cs |-> MergeCS(blocks, BlockRelevantCS(ApplyCS(w, blocks), b, h))]

\* ApplyResult::new(&wallet): the txids of the staged changeset.
ApplyResultNew(st) == st.txs

\* The connection's write of the staged changeset st: written or failed.
\* PersistedWallet::persist takes (empties) the stage when the write succeeds.
PersistOk(st) ==
    /\ durable' = StoreWrite(durable, st)
    /\ staged' = EmptyChangeSet

PersistFail(st) ==
    /\ staged' = st
    /\ UNCHANGED durable

\* Wallet::apply_block(height, block_bytes)
apply_block(h, b) ==
    /\ ~poisoned
    /\ nCalls < MaxCalls
    /\ nCalls' = nCalls + 1
    /\ UNCHANGED <<conc, env>>
    /\ LET c == ConnectBlock(mem, h, b)
           seqCall == h = TipHeight(mem.chain) + 1
       IN IF c.res # "Ok"
          THEN /\ ret' = Ret("apply_block", c.res, {})
               /\ poisoned' = (c.res = "panic")
               /\ history' = "mixed"
               /\ UNCHANGED <<mem, staged, durable, nOk, created, handed>>
          ELSE /\ mem' = ApplyCS(mem, c.cs)
               /\ \E written \in BOOLEAN :
                    IF written
                    THEN /\ PersistOk(MergeCS(staged, c.cs))
                         /\ ret' = Ret("apply_block", "Ok", ApplyResultNew(staged'))
                         /\ nOk' = nOk + 1
                         /\ history' = IF history = "sequential" /\ ~seqCall
                                          THEN "ok" ELSE history
                    ELSE /\ PersistFail(MergeCS(staged, c.cs))
                         /\ ret' = Ret("apply_block", "Database", {})
                         /\ history' = "mixed"
                         /\ UNCHANGED nOk
               /\ UNCHANGED <<poisoned, created, handed>>
    /\ inserted' = Extend(inserted, mem'.txs)

\* Wallet::apply_mempool(txs): txs a sequence of <<tx bytes, added_unix>>.
apply_mempool(list) ==
    /\ ~poisoned
    /\ nCalls < MaxCalls
    /\ nCalls' = nCalls + 1
    /\ UNCHANGED <<conc, env>>
    /\ UNCHANGED <<nOk, history, created, handed>>
    /\ IF \E i \in 1..Len(list) : list[i][1] = BadTx
       THEN \* .expect("must decode tx") panics with the inner lock held
            /\ ret' = Ret("apply_mempool", "panic", {})
            /\ poisoned' = TRUE
            /\ UNCHANGED <<mem, staged, durable>>
       ELSE LET cs == MempoolCS(mem, list)
            IN /\ mem' = ApplyCS(mem, cs)
               /\ UNCHANGED poisoned
               /\ \E written \in BOOLEAN :
                    IF written
                    THEN /\ PersistOk(MergeCS(staged, cs))
                         /\ ret' = Ret("apply_mempool", "Ok", ApplyResultNew(staged'))
                    ELSE /\ PersistFail(MergeCS(staged, cs))
                         /\ ret' = Ret("apply_mempool", "Database", {})
    /\ inserted' = Extend(inserted, mem'.txs)

\* Wallet::last_unused_address
last_unused_address ==
    /\ ~poisoned
    /\ nCalls < MaxCalls
    /\ nCalls' = nCalls + 1
    /\ UNCHANGED <<conc, env>>
    /\ LET i == NextUnusedExt(mem)
       IN /\ i <= MaxIdx
          /\ mem' = [mem EXCEPT !.ext = Max(@, i)]
          /\ staged' = IF i > mem.ext
                       THEN MergeCS(staged, [EmptyChangeSet EXCEPT !.ext = i])
                       ELSE staged
          /\ ret' = Ret("last_unused_address", "Ok", i)
    /\ UNCHANGED <<durable, poisoned, nOk, history, created, handed>>
    /\ UNCHANGED inserted

\* fresh_address without its store write: the variant C7 must tell apart.
fresh_address_unpersisted ==
    /\ ~poisoned
    /\ nCalls < MaxCalls
    /\ nCalls' = nCalls + 1
    /\ UNCHANGED <<conc, env>>
    /\ LET i == mem.ext + 1
       IN /\ i <= MaxIdx
          /\ mem' = [mem EXCEPT !.ext = i]
          /\ staged' = MergeCS(staged, [EmptyChangeSet EXCEPT !.ext = i])
          /\ ret' = Ret("fresh_address", "Ok", i)
          /\ handed' = Append(handed, i)
    /\ UNCHANGED <<durable, poisoned, nOk, history, created>>
    /\ UNCHANGED inserted

\* Wallet::fresh_address
fresh_address ==
    /\ ~poisoned
    /\ nCalls < MaxCalls
    /\ nCalls' = nCalls + 1
    /\ UNCHANGED <<conc, env>>
    /\ LET i == mem.ext + 1
           st == MergeCS(staged, [EmptyChangeSet EXCEPT !.ext = i])
       IN /\ i <= MaxIdx
          /\ mem' = [mem EXCEPT !.ext = i]
          /\ \E written \in BOOLEAN :
               IF written
               THEN /\ PersistOk(st)
                    /\ ret' = Ret("fresh_address", "Ok", i)
                    /\ handed' = Append(handed, i)
                    /\ UNCHANGED poisoned
               ELSE \* wallet.persist(&mut c).unwrap() panics, both locks held
                    /\ PersistFail(st)
                    /\ ret' = Ret("fresh_address", "panic", {})
                    /\ poisoned' = TRUE
                    /\ UNCHANGED handed
    /\ UNCHANGED <<nOk, history, created>>
    /\ UNCHANGED inserted

\* Wallet::peek_address(index)
peek_address(i) ==
    /\ ~poisoned
    /\ nCalls < MaxCalls
    /\ nCalls' = nCalls + 1
    /\ UNCHANGED <<conc, env>>
    /\ env.active # NoWallet
    /\ ret' = Ret("peek_address", "Ok", <<i, AddressOf(env.active[1], i)>>)
    /\ UNCHANGED <<mem, staged, durable, poisoned, nOk, history, created, handed>>
    /\ UNCHANGED inserted

RECURSIVE SumValue(_)
SumValue(S) == IF S = {} THEN 0
               ELSE LET t == CHOOSE x \in S : TRUE
                    IN OutValue(t) + SumValue(S \ {t})

\* Recipient amounts a caller asks for, and the fee of the built transaction.
Amounts == {1, 2, 5}
FeeOf(S) == 1

\* Coin selection (branch and bound, else a random draw): any set of unspent
\* outputs that covers the target and has no output it could do without.
Selections(w, amount) ==
    {S \in SUBSET Unspent(w) :
        /\ SumValue(S) >= amount + FeeOf(S)
        /\ \E t \in S : SumValue(S \ {t}) < amount + FeeOf(S)}

\* The internal index of the change output: next unused, else next.
RevealedUnusedInt(w) == {i \in 0..w.int : i \notin w.intUsed}
ChangeIdx(w) ==
    IF RevealedUnusedInt(w) # {} THEN SetMin(RevealedUnusedInt(w)) ELSE w.int + 1

\* Wallet::create_tx(feerate, recipients), one recipient; the returned
\* transaction is given by the outpoints it spends.
create_tx(addrOk, amount) ==
    /\ ~poisoned
    /\ nCalls < MaxCalls
    /\ nCalls' = nCalls + 1
    /\ UNCHANGED <<conc, env>>
    /\ UNCHANGED <<durable, poisoned, nOk, history, handed>>
    /\ UNCHANGED inserted
    /\ IF ~addrOk
       THEN /\ ret' = Ret("create_tx", "InvalidAddress", {})
            /\ UNCHANGED <<mem, staged, created>>
       ELSE IF Selections(mem, amount) = {}
       THEN /\ ret' = Ret("create_tx", "CreateTx", {})
            /\ UNCHANGED <<mem, staged, created>>
       ELSE \E S \in Selections(mem, amount) :
            LET change == SumValue(S) > amount + FeeOf(S)
                ci == ChangeIdx(mem)
            IN /\ change => ci <= MaxIdx
               /\ mem' = IF change
                         THEN [mem EXCEPT !.int = Max(@, ci), !.intUsed = @ \cup {ci}]
                         ELSE mem
               /\ staged' = IF change /\ ci > mem.int
                            THEN MergeCS(staged, [EmptyChangeSet EXCEPT !.int = ci])
                            ELSE staged
               /\ ret' = Ret("create_tx", "Ok", S)
               /\ created' = created \cup S

\* (1 + height).saturating_sub(conf_height) in u32: the sum wraps in a
\* release build.
Confirmations(w, t) ==
    IF ~IsConfirmed(w, t) THEN 0
    ELSE LET s == (1 + TipHeight(w.chain)) % U32Mod
             c == ConfHeight(w, t)
         IN IF s > c THEN s - c ELSE 0

\* The sum overflows: a debug build panics there.
ConfOverflows(w) ==
    TipHeight(w.chain) = MaxU32 /\ \E t \in w.txs : IsConfirmed(w, t)

Canonical(w) == {t \in w.txs : IsCanonical(w, t)}

\* The orders sort_unstable_by_key(Reverse(confirmations)) can leave.
Listings(w) ==
    {l \in [1..Cardinality(Canonical(w)) -> Canonical(w)] :
        /\ \A i, j \in DOMAIN l : i # j => l[i] # l[j]
        /\ \A i, j \in DOMAIN l : i < j => Confirmations(w, l[i]) >= Confirmations(w, l[j])}

\* Wallet::transactions: the listing, each entry <<txid, confirmations>>.
transactions ==
    /\ ~poisoned
    /\ nCalls < MaxCalls
    /\ nCalls' = nCalls + 1
    /\ UNCHANGED <<conc, env>>
    /\ UNCHANGED <<mem, staged, durable, nOk, history, created, handed>>
    /\ UNCHANGED inserted
    /\ \/ /\ ConfOverflows(mem)
          /\ ret' = Ret("transactions", "panic", {})
          /\ poisoned' = TRUE
       \/ /\ \E l \in Listings(mem) :
               ret' = Ret("transactions", "Ok",
                          [i \in DOMAIN l |-> <<l[i], Confirmations(mem, l[i])>>])
          /\ UNCHANGED poisoned

\* The orders sort_unstable_by_key leaves the unspent outputs in.
UtxoListings(w) ==
    {l \in [1..Cardinality(Unspent(w)) -> Unspent(w)] :
        /\ \A i, j \in DOMAIN l : i # j => l[i] # l[j]
        /\ \A i, j \in DOMAIN l : i < j => Confirmations(w, l[i]) >= Confirmations(w, l[j])}

\* 1 + wallet_height is only computed for a Confirmed output.
UtxoOverflows(w) ==
    TipHeight(w.chain) = MaxU32 /\ \E t \in Unspent(w) : IsConfirmed(w, t)

\* Wallet::utxos: the listing, each entry <<txid of the outpoint, confirmations>>.
utxos ==
    /\ ~poisoned
    /\ nCalls < MaxCalls
    /\ nCalls' = nCalls + 1
    /\ UNCHANGED <<conc, env>>
    /\ UNCHANGED <<mem, staged, durable, nOk, history, created, handed>>
    /\ UNCHANGED inserted
    /\ \/ /\ UtxoOverflows(mem)
          /\ ret' = Ret("utxos", "panic", {})
          /\ poisoned' = TRUE
       \/ /\ \E l \in UtxoListings(mem) :
               ret' = Ret("utxos", "Ok",
                          [i \in DOMAIN l |-> <<l[i], Confirmations(mem, l[i])>>])
          /\ UNCHANGED poisoned

\* The process stops and Wallet::load opens the store again.
crash_load ==
    /\ nCalls < MaxCalls
    /\ nCalls' = nCalls + 1
    /\ UNCHANGED <<conc, env>>
    /\ durable.chain[0] = GenesisHash
    /\ mem' = LoadWallet(durable)
    /\ staged' = EmptyChangeSet
    /\ poisoned' = FALSE
    /\ ret' = Ret("load", "Ok", {})
    /\ history' = "loaded"
    /\ inserted' = SelectSeq(inserted, LAMBDA t : t \in durable.txs)
    /\ UNCHANGED <<durable, nOk, created, handed>>

Entries == (Txs \cup {BadTx}) \X (1..MaxTime)
MempoolInputs ==
    {<<e>> : e \in Entries} \cup
    {<<e, f>> : e \in {x \in Entries : x[1] = "t1"},
                f \in {x \in Entries : x[1] \in {"t3", BadTx} /\ x[2] = 1}}

Ops == {"apply_block", "apply_mempool", "last_unused_address", "fresh_address",
        "peek_address", "create_tx", "transactions", "utxos"}

Next ==
    \/ \E h \in Heights, b \in Blocks \cup {BadBlock} : apply_block(h, b)
    \/ \E list \in MempoolInputs : apply_mempool(list)
    \/ last_unused_address
    \/ fresh_address
    \/ \E i \in 0..MaxIdx : peek_address(i)
    \/ \E ok \in BOOLEAN, a \in Amounts : create_tx(ok, a)
    \/ transactions
    \/ utxos
    \/ crash_load
    \/ \E op \in Ops : PoisonedCall(op)

Spec == Init /\ [][Next]_vars

(***************************************************************************)
(* The same methods with caller threads: a call blocks on inner.lock(),    *)
(* runs its in-memory part holding `inner`, takes `conn` for the write and *)
(* releases both mutexes when it returns (the guards drop at the end of    *)
(* the method).  A returned value is given as a set.                       *)
(***************************************************************************)
ConcCalls ==
    {<<"last_unused_address">>, <<"fresh_address">>, <<"peek_address", 0>>,
     <<"apply_mempool", <<<<"t1", 1>>>>>>, <<"apply_block", 1, "a">>,
     <<"mnemonic_words">>}

Ghosts == <<nOk, history, created, handed, inserted, env>>

\* The calls under way that reveal an address; they are started only
\* while an index up to MaxIdx is left for each.
Revealing ==
    {u \in Threads : /\ Len(conc.call[u]) > 0
                     /\ conc.call[u][1] \in {"fresh_address", "last_unused_address"}}

\* A thread enters a method and blocks on self.inner.lock().
Call(t, c) ==
    /\ conc.pc[t] = "idle"
    /\ nCalls < MaxCalls
    /\ c[1] \in {"fresh_address", "last_unused_address"}
          => mem.ext + Cardinality(Revealing) < MaxIdx
    /\ nCalls' = nCalls + 1
    /\ conc' = [conc EXCEPT !.pc[t] = IF c[1] = "mnemonic_words" THEN "blockedH"
                                       ELSE "blocked",
                            !.call[t] = c]
    /\ UNCHANGED <<mem, staged, durable, poisoned, ret>>
    /\ UNCHANGED Ghosts

\* inner.lock().unwrap(): the mutex is free; a poisoned one panics the call.
LockInner(t) ==
    /\ conc.pc[t] = "blocked"
    /\ conc.inner = 0
    /\ IF poisoned
       THEN /\ ret' = Ret(conc.call[t][1], "panic", {})
            /\ conc' = [conc EXCEPT !.pc[t] = "idle", !.call[t] = <<>>]
       ELSE /\ conc' = [conc EXCEPT !.pc[t] = "locked", !.inner = t]
            /\ UNCHANGED ret
    /\ UNCHANGED <<mem, staged, durable, poisoned, nCalls>>
    /\ UNCHANGED Ghosts

\* A return that leaves the `inner` guard alive.
ReturnHoldingInner(t) == [conc EXCEPT !.pc[t] = "idle", !.call[t] = <<>>, !.conn = 0]

Return(t) == [conc EXCEPT !.pc[t] = "idle", !.call[t] = <<>>, !.inner = 0, !.conn = 0]
ToWrite(t) == [conc EXCEPT !.pc[t] = "writing", !.conn = t]

\* The in-memory part of the method, up to self.conn.lock() or the return.
Body(t) ==
    /\ conc.pc[t] = "locked"
    /\ LET c == conc.call[t]
       IN \/ /\ c[1] = "last_unused_address"
             /\ LET i == NextUnusedExt(mem)
                IN /\ i <= MaxIdx
                   /\ mem' = [mem EXCEPT !.ext = Max(@, i)]
                   /\ staged' = IF i > mem.ext
                                THEN MergeCS(staged, [EmptyChangeSet EXCEPT !.ext = i])
                                ELSE staged
                   /\ ret' = Ret(c[1], "Ok", {i})
                   /\ conc' = Return(t)
          \/ /\ c[1] = "peek_address"
             /\ ret' = Ret(c[1], "Ok", {c[2]})
             /\ conc' = Return(t)
             /\ UNCHANGED <<mem, staged>>
          \/ /\ c[1] = "fresh_address"
             /\ LET i == mem.ext + 1
                IN /\ i <= MaxIdx
                   /\ mem' = [mem EXCEPT !.ext = i]
                   /\ staged' = MergeCS(staged, [EmptyChangeSet EXCEPT !.ext = i])
                   /\ conc' = ToWrite(t)
                   /\ UNCHANGED ret
          \/ /\ c[1] = "apply_mempool"
             /\ LET cs == MempoolCS(mem, c[2])
                IN /\ mem' = ApplyCS(mem, cs)
                   /\ staged' = MergeCS(staged, cs)
                   /\ conc' = ToWrite(t)
                   /\ UNCHANGED ret
          \/ /\ c[1] = "apply_block"
             /\ LET r == ConnectBlock(mem, c[2], c[3])
                IN IF r.res # "Ok"
                   THEN /\ ret' = Ret(c[1], r.res, {})
                        /\ conc' = Return(t)
                        /\ UNCHANGED <<mem, staged>>
                   ELSE /\ mem' = ApplyCS(mem, r.cs)
                        /\ staged' = MergeCS(staged, r.cs)
                        /\ conc' = ToWrite(t)
                        /\ UNCHANGED ret
    /\ UNCHANGED <<durable, poisoned, nCalls>>
    /\ UNCHANGED Ghosts

\* wallet.persist(&mut c) with both mutexes held, then the return.
Write(t) ==
    /\ conc.pc[t] = "writing"
    /\ LET c == conc.call[t]
       IN \E written \in BOOLEAN :
            IF written
            THEN /\ PersistOk(staged)
                 /\ ret' = Ret(c[1], "Ok",
                               IF c[1] = "fresh_address" THEN {mem.ext}
                               ELSE ApplyResultNew(staged'))
                 /\ UNCHANGED poisoned
            ELSE /\ PersistFail(staged)
                 /\ ret' = Ret(c[1], IF c[1] = "fresh_address" THEN "panic" ELSE "Database", {})
                 /\ poisoned' = (c[1] = "fresh_address")
    /\ conc' = Return(t)
    /\ UNCHANGED <<mem, nCalls>>
    /\ UNCHANGED Ghosts

\* Wallet::mnemonic_words: self.header.lock().unwrap(), no other mutex.
LockHeader(t) ==
    /\ conc.pc[t] = "blockedH"
    /\ conc.header = 0
    /\ conc' = [conc EXCEPT !.pc[t] = "lockedH", !.header = t]
    /\ UNCHANGED <<mem, staged, durable, poisoned, ret, nCalls>>
    /\ UNCHANGED Ghosts

\* The words are read and the header guard dropped.
mnemonic_words(t) ==
    /\ conc.pc[t] = "lockedH"
    /\ ret' = Ret("mnemonic_words", "Ok",
                  {env.active[1].entropy[k] : k \in DOMAIN env.active[1].entropy})
    /\ conc' = [conc EXCEPT !.pc[t] = "idle", !.call[t] = <<>>, !.header = 0]
    /\ UNCHANGED <<mem, staged, durable, poisoned, nCalls>>
    /\ UNCHANGED Ghosts

ConcNext ==
    \/ \E t \in Threads, c \in ConcCalls : Call(t, c)
    \/ \E t \in Threads : LockInner(t)
    \/ \E t \in Threads : Body(t)
    \/ \E t \in Threads : Write(t)
    \/ \E t \in Threads : LockHeader(t)
    \/ \E t \in Threads : mnemonic_words(t)

SpecConc == Init /\ [][ConcNext]_vars

\* The step of Body(t) as the mutexes see it: the holder of `inner` leaves
\* the body of its method, to the write or to the return.
Leave(t) ==
    /\ conc.pc[t] = "locked"
    /\ conc' \in {Return(t), ToWrite(t)}

\* Every thread inside a call keeps being scheduled, and a free mutex is
\* handed to a thread that keeps waiting for it.
SpecConcFair ==
    /\ SpecConc
    /\ \A t \in Threads :
         /\ WF_conc(LockInner(t)) /\ WF_conc(Leave(t)) /\ WF_conc(Write(t))
         /\ WF_conc(LockHeader(t)) /\ WF_conc(mnemonic_words(t))

(***************************************************************************)
(* Creating and opening the store: Wallet::create_new and Wallet::load on  *)
(* a file at db_path whose contents the caller does not control.           *)
(***************************************************************************)
Opened == <<mem, staged, durable, poisoned, nOk, history, created, nCalls,
            handed, conc, inserted>>

\* std::fs::remove_file(db_path), its result dropped: the file is gone when
\* the removal worked, and stays as it is otherwise.
RemoveFile(e, removed) ==
    IF removed THEN EmptyEnv ELSE [e EXCEPT !.active = NoWallet, !.how = "none"]

CreateSteps == {"none", "open", "table", "insert", "wallet"}

\* The entropy bytes rand::thread_rng() draws for a new header.
Entropies == {0, MaxByte}

\* Wallet::create_new(db_path, network): e the entropy drawn, failAt the
\* step that fails (none: every step works), removed the outcome of
\* remove_file.
create_new(net, e, failAt, removed) ==
    /\ env.rows < MaxRows
    /\ UNCHANGED Opened
    /\ LET h == [version |-> DB_MAGIC, entropy |-> <<e>>, network |-> net]
           open == [env EXCEPT !.file = TRUE]
           row == InsertHeader(open, encode(h))
       IN IF net = BadNetwork
          THEN /\ ret' = Ret("create_new", "ParseNetwork", {})
               /\ env' = [env EXCEPT !.active = NoWallet, !.how = "none"]
          ELSE IF failAt = "open"
          THEN /\ ret' = Ret("create_new", "Database", {})
               /\ env' = RemoveFile(env, removed)
          ELSE IF failAt \in {"table", "insert"}
          THEN /\ ret' = Ret("create_new", "Database", {})
               /\ env' = RemoveFile(open, removed)
          ELSE IF failAt = "wallet" \/ env.wallet # NoWallet
          THEN /\ ret' = Ret("create_new", "Wallet", {})
               /\ env' = RemoveFile(row, removed)
          ELSE /\ ret' = Ret("create_new", "Ok", {})
               /\ env' = CreatedEnv(env, h)

\* Something other than this program leaves a header row and keeps or drops
\* the wallet tables of the file.
store_contents ==
    /\ env.file /\ env.untouched /\ env.blob # NoHeader
    /\ \E b \in {<<x>> : x \in Blobs(env.blob[1])} \cup {NoHeader}, keepWallet \in BOOLEAN :
         env' = [env EXCEPT !.blob = b, !.untouched = FALSE,
                            !.rows = IF b = NoHeader THEN 0 ELSE 1,
                            !.wallet = IF keepWallet THEN @ ELSE NoWallet,
                            !.made = IF keepWallet THEN @ ELSE NoHeader,
                            !.active = NoWallet, !.how = "none"]
    /\ ret' = Ret("store", "Ok", {})
    /\ UNCHANGED Opened

\* Wallet::load(db_path, genesis_hash)
load(gen, opened) ==
    /\ UNCHANGED Opened
    /\ LET closed == [env EXCEPT !.active = NoWallet, !.how = "none"]
           d == decode(env.blob[1])
       IN IF ~opened
          THEN /\ ret' = Ret("load", "Database", {})
               /\ env' = closed
          ELSE IF ~env.file \/ env.blob = NoHeader
          THEN \* Connection::open creates the file; there is no header row
               /\ ret' = Ret("load", "Database", {})
               /\ env' = [closed EXCEPT !.file = TRUE]
          ELSE IF d.res # "Ok"
          THEN /\ ret' = Ret("load", d.res, {})
               /\ env' = closed
          ELSE IF gen = Malformed
          THEN \* BlockHash::from_slice(&genesis_hash).unwrap()
               /\ ret' = Ret("load", "panic", {})
               /\ env' = closed
          ELSE IF env.wallet = NoWallet
          THEN \* load_wallet returns Ok(None), w.unwrap() panics
               /\ ret' = Ret("load", "panic", {})
               /\ env' = closed
          ELSE IF env.wallet[1].desc # Descriptor(d.val[1]) \/ env.wallet[1].genesis # gen
          THEN /\ ret' = Ret("load", "Wallet", {})
               /\ env' = closed
          ELSE /\ ret' = Ret("load", "Ok", {})
               /\ env' = [env EXCEPT !.active = d.val, !.how = "load"]

InitOpen ==
    /\ mem = NewWallet
    /\ staged = EmptyChangeSet
    /\ durable = NewStore
    /\ poisoned = FALSE
    /\ ret = [op |-> "none", res |-> "Ok", val |-> {}]
    /\ nOk = 0
    /\ history = "sequential"
    /\ created = {}
    /\ nCalls = 0
    /\ handed = <<>>
    /\ conc = Idle
    /\ inserted = <<>>
    /\ env = EmptyEnv

NextOpen ==
    \/ \E net \in Networks \cup {BadNetwork}, e \in Entropies, failAt \in CreateSteps,
          removed \in BOOLEAN : create_new(net, e, failAt, removed)
    \/ store_contents
    \/ \E gen \in {GenesisHash, MainGenesis, Malformed}, opened \in BOOLEAN :
          load(gen, opened)
    \/ \E i \in 0..MaxIdx : peek_address(i)

SpecOpen == InitOpen /\ [][NextOpen]_vars

(***************************************************************************)
(* The claims.                                                             *)
(***************************************************************************)
\* The chain's checkpoints above genesis each follow, at the height below,
\* the block their own header names as parent.
Linked(c) ==
    \A h \in ChainHeights(c) :
        h > 0 => c[h - 1] = PrevHash(c[h])

ChainLen(c) == Cardinality(ChainHeights(c))

\* The step is the return of a call of `op`.
Returned(op) == ret'.op = op

CannotFollow(w, h, b) == h >= 1 /\ w.chain[h - 1] # PrevHash(b)

\* C2: an apply_block call whose block has no checkpoint at height - 1, or a
\* different one than its parent hash, returns CannotConnect and leaves the
\* chain, the transactions and the store as they were.
C2_RejectedUnchanged ==
    [][\A h \in Heights, b \in Blocks :
          (Returned("apply_block") /\ apply_block(h, b) /\ CannotFollow(mem, h, b)) =>
              /\ ret'.res = "CannotConnect"
              /\ mem'.chain = mem.chain
              /\ mem'.txs = mem.txs
              /\ mem'.anchors = mem.anchors
              /\ durable' = durable]_vars

\* C3: a Confirmed transaction stays Confirmed over every apply_mempool call,
\* and transactions() reports a non-zero confirmation count for every
\* transaction whose anchor block is in the chain.
C3_ConfirmedStays ==
    /\ [][\A list \in MempoolInputs, t \in Txs :
            (Returned("apply_mempool") /\ apply_mempool(list) /\ IsConfirmed(mem, t)) => IsConfirmed(mem', t)]_vars
    /\ []((ret.op = "transactions" /\ ret.res = "Ok") =>
            \A i \in DOMAIN ret.val :
                IsConfirmed(mem, ret.val[i][1]) => ret.val[i][2] > 0)

\* Outpoints a canonical transaction of the wallet spends.
SpentByKnown(w) == UNION {SpendsTx(s) : s \in Canonical(w)}

\* C4: no transaction create_tx returns spends an outpoint that a transaction
\* known to the wallet, or one an earlier create_tx returned, already spends.
C4_NoDoubleSpend ==
    [][\A a \in Amounts :
          (Returned("create_tx") /\ create_tx(TRUE, a) /\ ret'.res = "Ok") =>
              ret'.val \cap (created \cup SpentByKnown(mem)) = {}]_vars

\* C5: when the store write fails inside apply_block or apply_mempool the
\* call returns the Database error and the in-memory wallet and its staged
\* changeset are what they were before the call.
C5_FailedWriteRollsBack ==
    [][/\ \A h \in Heights, b \in Blocks :
            (Returned("apply_block") /\ apply_block(h, b) /\ ret'.res = "Database") =>
                (mem' = mem /\ staged' = staged)
       /\ \A list \in MempoolInputs :
            (Returned("apply_mempool") /\ apply_mempool(list) /\ ret'.res = "Database") =>
                (mem' = mem /\ staged' = staged)]_vars

\* C6: between calls the staged changeset is empty: every change made to the
\* in-memory wallet is in the store.
C6_NothingStaged == staged = EmptyChangeSet

\* C7: the store records every index fresh_address has returned, and
\* fresh_address never returns an index it returned before or a lower one,
\* whatever crashes and loads lie between.
C7_RevealSurvivesCrash ==
    /\ \A i \in DOMAIN handed : durable.ext >= handed[i]
    /\ \A i, j \in DOMAIN handed : i < j => handed[i] < handed[j]
    /\ mem.ext >= durable.ext

\* fresh_address, a crash and a load, and fresh_address again.
C7_Witness ==
    /\ ret.op = "fresh_address" /\ ret.res = "Ok"
    /\ history = "loaded"
    /\ handed = <<0, 1>>

\* C8: apply_block and apply_mempool return, when they succeed, exactly the
\* ids of the transactions the call added to the wallet.
C8_ReturnsNewTxids ==
    [][/\ \A h \in Heights, b \in Blocks :
            (Returned("apply_block") /\ apply_block(h, b) /\ ret'.res = "Ok") => ret'.val = mem'.txs \ mem.txs
       /\ \A list \in MempoolInputs :
            (Returned("apply_mempool") /\ apply_mempool(list) /\ ret'.res = "Ok") => ret'.val = mem'.txs \ mem.txs]_vars

\* C10: last_unused_address returns the lowest unused external index and
\* changes nothing: not the revealed index, not the staged changeset, not the
\* store.
C10_LastUnusedReadsOnly ==
    [][(Returned("last_unused_address") /\ last_unused_address) =>
          /\ ret'.val = NextUnusedExt(mem)
          /\ mem' = mem
          /\ staged' = staged
          /\ durable' = durable]_vars

\* A thread that has taken `inner` and has not yet run its method's body.
Entering(t) == conc.pc[t] = "locked"
InCall(t) == conc.pc[t] \in {"locked", "writing"}

\* C9: a call holds the wallet to itself from its first read until after
\* its write (at most one thread is inside a method, `conn` is only held by
\* the holder of `inner`), and a call that starts finds no change of another
\* call that is not yet in the store.
C9_ExclusiveUntilPersisted ==
    /\ \A t \in Threads : InCall(t) <=> conc.inner = t
    /\ conc.conn # 0 => conc.conn = conc.inner
    /\ \A t \in Threads : Entering(t) => staged = EmptyChangeSet

\* The mutual exclusion alone.
ExclusiveAccess ==
    /\ \A t \in Threads : InCall(t) <=> conc.inner = t
    /\ conc.conn # 0 => conc.conn = conc.inner

\* C11: fresh_address called right after last_unused_address returns the
\* index last_unused_address returned, and an index above every index
\* fresh_address returned before.
C11_FreshAfterLastUnused ==
    [][(Returned("fresh_address") /\ fresh_address /\ ret.op = "last_unused_address" /\ ret.res = "Ok"
          /\ ret'.res = "Ok")
       => /\ ret'.val = ret.val
          /\ \A i \in DOMAIN handed : handed[i] < ret'.val]_vars

\* C14: a failed store write comes back as the operation's error value:
\* fresh_address ends with Ok or DatabaseError::Write, never a panic, and no
\* mutating operation returns Ok while its change is not in the store.
C14_WriteFailureIsError ==
    [][/\ (Returned("fresh_address") /\ fresh_address) => ret'.res \in {"Ok", "Write"}
       /\ (/\ \/ Returned("fresh_address") /\ fresh_address
              \/ /\ Returned("apply_block")
                 /\ \E h \in Heights, b \in Blocks : apply_block(h, b)
              \/ /\ Returned("apply_mempool")
                 /\ \E list \in MempoolInputs : apply_mempool(list)
           /\ ret'.res = "Ok")
          => staged' = EmptyChangeSet]_vars

\* C18: with the tip at height 0, apply_block never ends in the
\* InconsistentBlocks branch marked unreachable!(), whatever the height and
\* the block's parent hash.
C18_BootstrapNeverInconsistent ==
    [][\A h \in Heights, b \in Blocks :
          (Returned("apply_block") /\ apply_block(h, b) /\ TipHeight(mem.chain) = 0) => ret'.res # "panic"]_vars

HasBadTx(list) == \E i \in 1..Len(list) : list[i][1] = BadTx

\* C19: apply_mempool with an entry that does not decode returns an error
\* value, inserts and writes nothing, and leaves the wallet usable.
C19_BadTxIsError ==
    [][\A list \in MempoolInputs :
          (Returned("apply_mempool") /\ apply_mempool(list) /\ HasBadTx(list))
          => /\ ret'.res \notin {"Ok", "panic"}
             /\ mem' = mem /\ staged' = staged /\ durable' = durable
             /\ ~poisoned']_vars

\* A step of transactions() or of utxos().
Listed ==
    \/ Returned("transactions") /\ transactions
    \/ Returned("utxos") /\ utxos

\* 1 + tip height - anchor height over the integers, floored at 0.
ExactConfirmations(w, t) ==
    IF ~IsConfirmed(w, t) THEN 0
    ELSE Max(0, 1 + TipHeight(w.chain) - ConfHeight(w, t))

\* C16: transactions() and utxos() report 0 confirmations for an unconfirmed
\* entry and otherwise max(0, 1 + tip height - anchor height), for every tip
\* height of the u32 range.
C16_ConfirmationCount ==
    [][Listed
       => /\ ret'.res = "Ok"
          /\ \A i \in DOMAIN ret'.val :
               ret'.val[i][2] = ExactConfirmations(mem, ret'.val[i][1])]_vars

PosIn(q, t) == CHOOSE i \in DOMAIN q : q[i] = t

\* C17: transactions() and utxos() list their entries by descending
\* confirmation count, entries of equal count in their insertion order.
C17_StableDescending ==
    [][(Listed /\ ret'.res = "Ok")
       => \A i, j \in DOMAIN ret'.val :
            i < j => \/ ret'.val[i][2] > ret'.val[j][2]
                     \/ /\ ret'.val[i][2] = ret'.val[j][2]
                        /\ PosIn(inserted, ret'.val[i][1]) < PosIn(inserted, ret'.val[j][1])]_vars

\* C12: when create_new returns an error, no store file that the call
\* created is left at db_path.
C12_NoFileAfterFailedCreate ==
    [][\A net \in Networks \cup {BadNetwork}, e \in Entropies, failAt \in CreateSteps,
          removed \in BOOLEAN :
          (Returned("create_new") /\ create_new(net, e, failAt, removed) /\ ret'.res # "Ok" /\ ~env.file)
          => ~env'.file]_vars

\* C13: load returns a wallet or a LoadError for every store content and
\* every genesis_hash argument; it never panics.
C13_LoadNeverAborts ==
    [][\A gen \in {GenesisHash, MainGenesis, Malformed}, opened \in BOOLEAN :
          (Returned("load") /\ load(gen, opened)) => ret'.res # "panic"]_vars

\* C15: decode(encode(h)) is h for every header, and a wallet made by
\* create_new and opened again by load gives every index the address it had
\* before, on every call.
C15_SameAddressesAfterLoad ==
    /\ \A h \in Headers : decode(encode(h)) = [res |-> "Ok", val |-> <<Stamped(h)>>]
    /\ (env.active # NoWallet /\ env.made # NoHeader)
       => \A i \in 0..MaxIdx : AddressOf(env.active[1], i) = AddressOf(env.made[1], i)
    /\ (ret.op = "peek_address" /\ env.made # NoHeader)
       => ret.val = <<ret.val[1], AddressOf(env.made[1], ret.val[1])>>

\* peek_address on a wallet that load opened from the store create_new made.
C15_Witness ==
    /\ env.how = "load" /\ env.untouched
    /\ ret.op = "peek_address" /\ ret.res = "Ok"
    /\ ret.val = <<1, AddressOf(env.made[1], 1)>>

\* A thread holds a mutex only inside the method that took it, `conn` is
\* held only by the holder of `inner`, and the holder of `header` holds
\* nothing else; a thread waiting for a mutex holds none.
LockOrder ==
    /\ conc.conn # 0 => conc.conn = conc.inner
    /\ \A t \in Threads :
         /\ conc.inner = t <=> conc.pc[t] \in {"locked", "writing"}
         /\ conc.conn = t <=> conc.pc[t] = "writing"
         /\ conc.header = t <=> conc.pc[t] = "lockedH"

\* C20: the mutexes are taken in one order (conn under inner, header
\* alone), and every call that starts returns: no interleaving of the
\* threads leaves a call waiting for ever.
C20_LockOrderNoDeadlock ==
    /\ []LockOrder
    /\ \A t \in Threads : (conc.pc[t] # "idle") ~> (conc.pc[t] = "idle")

\* One thread writes, holding inner and conn, while the other waits for
\* inner.
C20_Witness ==
    \E t, u \in Threads :
        /\ conc.pc[t] = "writing" /\ conc.inner = t /\ conc.conn = t
        /\ conc.pc[u] = "blocked"

\* db_path holds what a create_new that returned Ok left there: the file,
\* its header row and the wallet made from that header.
HoldsCreated ==
    /\ env.file /\ env.untouched
    /\ env.made # NoHeader /\ env.wallet # NoWallet

\* C21: create_new on a path that holds the store of an earlier successful
\* create_new fails and leaves the file, its one header row and the wallet
\* data as they were.
C21_CreateKeepsExisting ==
    [][\A net \in Networks \cup {BadNetwork}, e \in Entropies, failAt \in CreateSteps,
          removed \in BOOLEAN :
          (Returned("create_new") /\ create_new(net, e, failAt, removed) /\ HoldsCreated)
          => /\ ret'.res # "Ok"
             /\ env'.file
             /\ env'.blob = env.blob /\ env'.rows = env.rows
             /\ env'.wallet = env.wallet]_vars
====
